---- MODULE Spec2Model ----
(***************************************************************************)
(* Model of DOCKER/acad-service/main.py: the request handlers health_check, *)
(* get_mahasiswas and get_ips, and the connection scope get_db_connection.  *)
(*                                                                          *)
(* The PostgreSQL store is the environment: its three relations are the     *)
(* variable db, and the set faults names the driver calls that raise during *)
(* the run.  Floating-point quantities are kept as integers scaled by 100:  *)
(* every weight of the conversion table is a multiple of 0.25, so the       *)
(* products and sums of lines 126-127 are exact in binary floating point    *)
(* and the only inexact operations are the division and the rounding of     *)
(* line 129, which PyDivRound reproduces.                                   *)
(***************************************************************************)
EXTENDS Integers, Sequences, FiniteSets, TLC

VARIABLES db, faults, http_str, req

vars == <<db, faults, http_str, req>>

(***************************************************************************)
(* Bounds of the model.                                                     *)
(***************************************************************************)
NumRequests == 2
MaxRows == 2
MaxSks == 4
MaxClock == 2

Requests == 1..NumRequests

(***************************************************************************)
(* Driver calls made through psycopg2, in the names the source uses.        *)
(***************************************************************************)
Ops == {"connect", "cursor", "execute", "fetchall", "commit", "rollback", "close"}

Fails(op) == op \in faults

(***************************************************************************)
(* Exceptions.  msg is the message the exception was built with: for the    *)
(* driver's errors the text str(e) gives, for an HTTPException its detail.  *)
(*                                                                          *)
(* What str(e) gives for an HTTPException depends on the Starlette the      *)
(* service is installed with, which the repository does not pin: releases   *)
(* that define HTTPException.__str__ print "<status_code>: <detail>", older *)
(* ones leave Exception.__str__ with no args, the empty string.  http_str   *)
(* is which of the two the running process has; it never changes.           *)
(***************************************************************************)
HttpStrForms == {"status_and_detail", "empty"}

NoExc == [type |-> "none", msg |-> "", status_code |-> 0]

DbError(op) ==
    CASE op = "connect"  -> [type |-> "OperationalError", msg |-> "connect failed", status_code |-> 0]
      [] op = "cursor"   -> [type |-> "OperationalError", msg |-> "cursor failed", status_code |-> 0]
      [] op = "execute"  -> [type |-> "OperationalError", msg |-> "execute failed", status_code |-> 0]
      [] op = "fetchall" -> [type |-> "OperationalError", msg |-> "fetchall failed", status_code |-> 0]
      [] op = "commit"   -> [type |-> "OperationalError", msg |-> "commit failed", status_code |-> 0]
      [] op = "rollback" -> [type |-> "OperationalError", msg |-> "rollback failed", status_code |-> 0]
      [] op = "close"    -> [type |-> "OperationalError", msg |-> "close failed", status_code |-> 0]

NotFound ==
    [type |-> "HTTPException",
     msg |-> "Data mahasiswa tidak ditemukan atau belum mengambil mata kuliah",
     status_code |-> 404]

ZeroDivision(isFloat) ==
    [type |-> "ZeroDivisionError",
     msg |-> IF isFloat THEN "float division by zero" ELSE "division by zero",
     status_code |-> 0]

\* a sanitized message in place of the error's own
Str_generic(e) == "Internal Server Error"

\* str(e); NotFound is the one HTTPException the handlers build
Str(e) ==
    IF e.type = "HTTPException"
    THEN IF http_str = "empty" THEN ""
         ELSE "404: Data mahasiswa tidak ditemukan atau belum mengambil mata kuliah"
    ELSE e.msg

(***************************************************************************)
(* The conversion table of get_ips, weights scaled by 100.                  *)
(***************************************************************************)
Grades == {"A", "B+", "B", "B-", "C+", "C", "D", "E"}

konversi ==
    [g \in Grades |->
        CASE g = "A"  -> 400
          [] g = "B+" -> 350
          [] g = "B"  -> 300
          [] g = "B-" -> 275
          [] g = "C+" -> 250
          [] g = "C"  -> 200
          [] g = "D"  -> 100
          [] g = "E"  -> 0]

\* konversi.get(huruf, 1.0): a grade outside the table weighted like a D
Bobot_default_one(huruf) == IF huruf \in DOMAIN konversi THEN konversi[huruf] ELSE 100

\* konversi.get(huruf, 0)
Bobot(huruf) == IF huruf \in DOMAIN konversi THEN konversi[huruf] ELSE 0

(***************************************************************************)
(* round(total_bobot / total_sks, 2), line 129.  P is total_bobot scaled by *)
(* 100 and Q is total_sks > 0; the result is the rounded value scaled by    *)
(* 100.  The division yields the double nearest to P/(100*Q); round() then  *)
(* rounds the exact value of that double, ties to even.  The quotient is    *)
(* halfway between two hundredths only when 2*(P % Q) = Q; then it equals   *)
(* n/200 with n odd, which is a double exactly when 25 divides n, and       *)
(* otherwise the double lies above or below it as the binary expansion of   *)
(* n/200 is rounded up or down at the 53rd significant bit.                 *)
(***************************************************************************)
MantissaBits == 53

BitLen(n) == IF n = 0 THEN 0 ELSE IF n = 1 THEN 1 ELSE IF n < 4 THEN 2 ELSE 3

\* Whether the double nearest to A/B (not a dyadic rational, 0 < A/B < 8)
\* is greater than A/B: the first bit after the mantissa is 1.
RECURSIVE RoundBit(_, _, _, _)
RoundBit(r, B, need, started) ==
    LET bit == (2 * r) \div B
        r2  == (2 * r) % B
    IN  IF ~started
        THEN IF bit = 1
             THEN RoundBit(r2, B, MantissaBits - 1, TRUE)
             ELSE RoundBit(r2, B, need, FALSE)
        ELSE IF need = 0
             THEN bit = 1
             ELSE RoundBit(r2, B, need - 1, TRUE)

DoubleIsAbove(A, B) ==
    LET I == A \div B
    IN  IF I > 0
        THEN RoundBit(A % B, B, MantissaBits - BitLen(I), TRUE)
        ELSE RoundBit(A % B, B, 0, FALSE)

\* truncation to the hundredth in place of rounding
PyDivTrunc(P, Q) == P \div Q

PyDivRound(P, Q) ==
    LET f   == P \div Q
        rem == P % Q
        n   == 2 * f + 1
    IN  IF 2 * rem < Q THEN f
        ELSE IF 2 * rem > Q THEN f + 1
        ELSE IF n % 25 = 0
             THEN (IF f % 2 = 0 THEN f ELSE f + 1)
             ELSE (IF DoubleIsAbove(n, 200) THEN f + 1 ELSE f)

(***************************************************************************)
(* The store.  mahasiswa holds <<nim, nama, jurusan, angkatan>>,            *)
(* mata_kuliah holds <<kode_mk, sks>>, krs holds <<nim, kode_mk, nilai>>.   *)
(***************************************************************************)
\* SELECT * FROM mahasiswa
SelectMahasiswa(d) == d.mahasiswa

\* SELECT m.nim, m.nama, m.jurusan, krs.nilai, mk.sks FROM mahasiswa m
\* JOIN krs ON krs.nim = m.nim JOIN mata_kuliah mk ON mk.kode_mk = krs.kode_mk
\* WHERE m.nim = %s
RECURSIVE JoinFrom(_, _, _)
JoinFrom(d, n, k) ==
    IF k > Len(d.krs) THEN <<>>
    ELSE LET e  == d.krs[k]
             ms == {j \in 1..Len(d.mahasiswa) : d.mahasiswa[j][1] = e[1]}
             cs == {j \in 1..Len(d.mata_kuliah) : d.mata_kuliah[j][1] = e[2]}
         IN  IF e[1] = n /\ ms # {} /\ cs # {}
             THEN LET m  == d.mahasiswa[CHOOSE j \in ms : TRUE]
                      mk == d.mata_kuliah[CHOOSE j \in cs : TRUE]
                  IN  <<<<m[1], m[2], m[3], e[3], mk[2]>>>> \o JoinFrom(d, n, k + 1)
             ELSE JoinFrom(d, n, k + 1)

SelectIps(d, n) == JoinFrom(d, n, 1)

(***************************************************************************)
(* One pass of the loop body, lines 122-127: acc is                         *)
(* <<total_bobot, total_sks>>, row a row of the joined query.               *)
(***************************************************************************)
\* total_sks = sks in place of total_sks += sks
AddRow_sks_assigned(acc, row) ==
    LET huruf == row[4]
        sks   == row[5]
        bobot == Bobot(huruf)
    IN  <<acc[1] + bobot * sks, sks>>

\* total_bobot = bobot * sks in place of total_bobot += bobot * sks
AddRow_bobot_assigned(acc, row) ==
    LET huruf == row[4]
        sks   == row[5]
        bobot == Bobot(huruf)
    IN  <<bobot * sks, acc[2] + sks>>

AddRow(acc, row) ==
    LET huruf == row[4]
        sks   == row[5]
        bobot == Bobot(huruf)
    IN  <<acc[1] + bobot * sks, acc[2] + sks>>

\* total_bobot is a float from the first row whose grade is in the table on
\* (the table's values are floats, the default 0 is an int)
IsFloatSum(rs) == \E k \in 1..Len(rs) : rs[k][4] \in DOMAIN konversi

(***************************************************************************)
(* A request: the handler serving it, its query parameter, its position in  *)
(* the handler (pc) and the handler's local variables.  calls is the        *)
(* sequence of driver calls the request has made, raised the exceptions     *)
(* raised while serving it, exc the exception propagating now.  ret is the  *)
(* value of the return statement inside the with block.  status is the HTTP *)
(* status of the response, 0 until it is sent; a 200 response carries ret,  *)
(* a 500 response carries detail.                                           *)
(***************************************************************************)
NoRet == [kind |-> "none"]

IdleReq ==
    [handler |-> "none", nim |-> "", pc |-> "idle", conn |-> "none",
     calls |-> <<>>, raised |-> <<>>, exc |-> NoExc, rows |-> <<>>, i |-> 0,
     total_bobot |-> 0, total_sks |-> 0, ret |-> NoRet,
     status |-> 0, detail |-> ""]

NewReq(h, n) == [IdleReq EXCEPT !.handler = h, !.nim = n, !.pc = "start"]

Set(r, q) == /\ req' = [req EXCEPT ![r] = q]
             /\ UNCHANGED <<db, faults, http_str>>

Called(q, op) == [q EXCEPT !.calls = Append(@, op)]

Raise(q, e, at) == [q EXCEPT !.exc = e, !.raised = Append(@, e), !.pc = at]

(***************************************************************************)
(* health_check, lines 59-64.  datetime.now() reads the wall clock, which   *)
(* belongs to the environment: any reading, in microseconds from the start  *)
(* of the run, and nothing orders the readings of two calls.  isoformat()   *)
(* prints the date and time to the second and then, only when the           *)
(* microsecond is not 0, a point and six digits.                            *)
(***************************************************************************)
MicrosPerSecond == 1000000

ClockReadings == 0..MaxClock

IsoFormat(t) ==
    [second |-> t \div MicrosPerSecond,
     microsecond |-> t % MicrosPerSecond,
     fraction_digits |-> IF t % MicrosPerSecond = 0 THEN 0 ELSE 6]

health_check(r) ==
    /\ req[r].pc = "start"
    /\ req[r].handler = "health"
    /\ \E t \in ClockReadings :
          Set(r, [req[r] EXCEPT !.pc = "done", !.status = 200,
                                !.ret = [kind |-> "health",
                                         status |-> "Acad Service is running",
                                         timestamp |-> IsoFormat(t)]])

(***************************************************************************)
(* get_db_connection, lines 37-47, entered from the with statements of      *)
(* lines 70 and 86.  connect raising leaves the with statement with no      *)
(* connection; the handler's except clause takes over.                      *)
(***************************************************************************)
connect(r) ==
    /\ req[r].pc = "start"
    /\ req[r].handler \in {"mahasiswa", "ips"}
    /\ LET q == Called(req[r], "connect")
       IN  IF Fails("connect")
           THEN Set(r, Raise(q, DbError("connect"), "except"))
           ELSE Set(r, [q EXCEPT !.conn = "open", !.pc = "cursor"])

\* conn.cursor(), lines 71 and 87
cursor(r) ==
    /\ req[r].pc = "cursor"
    /\ LET q == Called(req[r], "cursor")
       IN  IF Fails("cursor")
           THEN Set(r, Raise(q, DbError("cursor"), "rollback"))
           ELSE Set(r, [q EXCEPT !.pc = "execute"])

\* a statement that deletes the enrolment records it reads
execute_deletes(r) ==
    /\ req[r].pc = "execute"
    /\ LET q == Called(req[r], "execute")
       IN  IF Fails("execute")
           THEN Set(r, Raise(q, DbError("execute"), "rollback"))
           ELSE /\ req' = [req EXCEPT ![r] = [q EXCEPT !.pc = "fetchall"]]
                /\ db' = [db EXCEPT !.krs = <<>>]
                /\ UNCHANGED <<faults, http_str>>

\* cursor.execute(...), lines 72 and 97: a SELECT, the store is only read
execute(r) ==
    /\ req[r].pc = "execute"
    /\ LET q == Called(req[r], "execute")
       IN  IF Fails("execute")
           THEN Set(r, Raise(q, DbError("execute"), "rollback"))
           ELSE Set(r, [q EXCEPT !.pc = "fetchall"])

\* rows = cursor.fetchall(), lines 73 and 98
fetchall(r) ==
    /\ req[r].pc = "fetchall"
    /\ LET q == Called(req[r], "fetchall")
       IN  IF Fails("fetchall")
           THEN Set(r, Raise(q, DbError("fetchall"), "rollback"))
           ELSE Set(r, [q EXCEPT
                    !.rows = IF q.handler = "mahasiswa"
                             THEN SelectMahasiswa(db)
                             ELSE SelectIps(db, q.nim),
                    !.pc = IF q.handler = "mahasiswa" THEN "list" ELSE "check"])

\* get_mahasiswas, lines 75-78: the return inside the with block
list_rows(r) ==
    /\ req[r].pc = "list"
    /\ LET q == req[r]
       IN  Set(r, [q EXCEPT
                !.ret = [kind |-> "list",
                         items |-> [k \in 1..Len(q.rows) |->
                                      [nim |-> q.rows[k][1], nama |-> q.rows[k][2],
                                       jurusan |-> q.rows[k][3],
                                       angkatan |-> q.rows[k][4]]]],
                !.pc = "commit"])

\* get_ips, lines 100-119: the empty check, then the accumulators
check_rows(r) ==
    /\ req[r].pc = "check"
    /\ LET q == req[r]
       IN  IF q.rows = <<>>
           THEN Set(r, Raise(q, NotFound, "rollback"))
           ELSE Set(r, [q EXCEPT !.total_bobot = 0, !.total_sks = 0,
                                 !.i = 1, !.pc = "loop"])

\* get_ips, lines 121-127: one row of the for loop
loop_row(r) ==
    /\ req[r].pc = "loop"
    /\ req[r].i <= Len(req[r].rows)
    /\ LET q   == req[r]
           acc == AddRow(<<q.total_bobot, q.total_sks>>, q.rows[q.i])
       IN  Set(r, [q EXCEPT !.total_bobot = acc[1], !.total_sks = acc[2],
                            !.i = q.i + 1])

\* get_ips, lines 129-137: the division, the rounding and the returned dict
divide(r) ==
    /\ req[r].pc = "loop"
    /\ req[r].i > Len(req[r].rows)
    /\ LET q == req[r]
       IN  IF q.total_sks = 0
           THEN Set(r, Raise(q, ZeroDivision(IsFloatSum(q.rows)), "rollback"))
           ELSE Set(r, [q EXCEPT
                    !.ret = [kind |-> "ips", nim |-> q.rows[1][1],
                             nama |-> q.rows[1][2], jurusan |-> q.rows[1][3],
                             ips |-> PyDivRound(q.total_bobot, q.total_sks),
                             total_sks |-> q.total_sks],
                    !.pc = "commit"])

(***************************************************************************)
(* get_db_connection after the yield.  Line 42 when the body left the with  *)
(* block without an exception, lines 43-45 when an exception was thrown in  *)
(* at the yield or raised by commit, lines 46-47 in every case.             *)
(***************************************************************************)
commit(r) ==
    /\ req[r].pc = "commit"
    /\ LET q == Called(req[r], "commit")
       IN  IF Fails("commit")
           THEN Set(r, Raise(q, DbError("commit"), "rollback"))
           ELSE Set(r, [q EXCEPT !.pc = "close"])

\* except Exception: conn.rollback() with no raise: the exception is swallowed
rollback_swallows(r) ==
    /\ req[r].pc = "rollback"
    /\ LET q == Called(req[r], "rollback")
       IN  IF Fails("rollback")
           THEN Set(r, Raise(q, DbError("rollback"), "close"))
           ELSE Set(r, [q EXCEPT !.exc = NoExc, !.pc = "close"])

\* rollback with close outside a finally clause: a failing rollback skips it
rollback_skips_close(r) ==
    /\ req[r].pc = "rollback"
    /\ LET q == Called(req[r], "rollback")
       IN  IF Fails("rollback")
           THEN Set(r, Raise(q, DbError("rollback"), "except"))
           ELSE Set(r, [q EXCEPT !.pc = "close"])

\* except Exception as e: conn.rollback(); raise e
rollback(r) ==
    /\ req[r].pc = "rollback"
    /\ LET q == Called(req[r], "rollback")
       IN  IF Fails("rollback")
           THEN Set(r, Raise(q, DbError("rollback"), "close"))
           ELSE Set(r, [q EXCEPT !.pc = "close"])

\* finally: conn.close(); then the with statement returns or raises
close(r) ==
    /\ req[r].pc = "close"
    /\ LET q == [Called(req[r], "close") EXCEPT !.conn = "closed"]
       IN  IF Fails("close")
           THEN Set(r, Raise(q, DbError("close"), "except"))
           ELSE Set(r, [q EXCEPT !.pc = IF q.exc = NoExc THEN "return" ELSE "except"])

\* the handler returns the value of its return statement: a 200 response
send_response(r) ==
    /\ req[r].pc = "return"
    /\ Set(r, [req[r] EXCEPT !.status = 200, !.pc = "done"])

\* except Exception as e: raise HTTPException(status_code=500, detail=str(e)),
\* lines 79-80 and 139-140
handle_exception(r) ==
    /\ req[r].pc = "except"
    /\ Set(r, [req[r] EXCEPT !.status = 500, !.detail = Str(req[r].exc),
                             !.pc = "done"])

Next ==
    \E r \in Requests :
        \/ health_check(r)
        \/ connect(r)
        \/ cursor(r)
        \/ execute(r)
        \/ fetchall(r)
        \/ list_rows(r)
        \/ check_rows(r)
        \/ loop_row(r)
        \/ divide(r)
        \/ commit(r)
        \/ rollback(r)
        \/ close(r)
        \/ send_response(r)
        \/ handle_exception(r)

(***************************************************************************)
(* Stores and requests the runs start from.  The roster has two students;   *)
(* StoreOf(ps) enrols "s1" in one course per pair <<nilai, sks>> of ps, in  *)
(* that order; "s2" has no enrolment there and "s9" is no student.          *)
(***************************************************************************)
GradeSymbols == Grades \cup {"F"}

Pairs == GradeSymbols \X (0..MaxSks)

PairSeqs == UNION {[1..n -> Pairs] : n \in 0..MaxRows}

ScenarioA == <<<<"A", 3>>, <<"B+", 3>>>>
ScenarioB == <<<<"C", 2>>, <<"D", 4>>, <<"E", 2>>>>
ScenarioC == <<<<"F", 3>>>>
\* 8.25 / 10 is halfway between 0.82 and 0.83 and is not a double
Halfway   == <<<<"B-", 3>>, <<"E", 4>>, <<"E", 3>>>>
ZeroSks   == <<<<"A", 0>>>>

Roster == << <<"s1", "Ani", "TI", 2021>>, <<"s2", "Budi", "SI", 2022>> >>

Nims == {"s1", "s2", "s9"}

StoreOf(ps) ==
    [mahasiswa   |-> Roster,
     mata_kuliah |-> [k \in 1..Len(ps) |-> <<k, ps[k][2]>>],
     krs         |-> [k \in 1..Len(ps) |-> <<"s1", k, ps[k][1]>>]]

\* both students enrolled, the records of the two interleaved
MixedStore ==
    [mahasiswa   |-> Roster,
     mata_kuliah |-> << <<1, 3>>, <<2, 2>>, <<3, 4>> >>,
     krs         |-> << <<"s1", 1, "A">>, <<"s2", 1, "C">>,
                        <<"s1", 2, "B-">>, <<"s2", 3, "F">> >>]

SmallStores == {StoreOf(<<>>), StoreOf(ScenarioA), StoreOf(ZeroSks), MixedStore}

RequestKinds ==
    {NewReq("health", ""), NewReq("mahasiswa", "")}
        \cup {NewReq("ips", n) : n \in Nims}

OneRequest(q) == [r \in Requests |-> IF r = 1 THEN q ELSE IdleReq]

\* one GPA request on every bounded enrolment list, the store never failing
InitCalc ==
    /\ faults = {}
    /\ http_str \in HttpStrForms
    /\ \E ps \in PairSeqs \cup {ScenarioA, ScenarioB, ScenarioC, Halfway} :
          db = StoreOf(ps)
    /\ req = OneRequest(NewReq("ips", "s1"))

\* one request of any kind, any set of driver calls failing
InitFault ==
    /\ faults \in SUBSET Ops
    /\ http_str \in HttpStrForms
    /\ db \in SmallStores
    /\ \E q \in RequestKinds : req = OneRequest(q)

Init == InitCalc \/ InitFault

Spec == Init /\ [][Next]_vars

\* concurrent requests of any kinds, at most one driver call failing
InitConc ==
    /\ faults \in {{}} \cup {{op} : op \in Ops}
    /\ http_str \in HttpStrForms
    /\ db = MixedStore
    /\ req \in [Requests -> RequestKinds]

SpecConc == InitConc /\ [][Next]_vars

(***************************************************************************)
(* Vocabulary of the properties.                                            *)
(***************************************************************************)
Count(seq, x) == Cardinality({k \in 1..Len(seq) : seq[k] = x})

Position(seq, x) == CHOOSE k \in 1..Len(seq) : seq[k] = x

Done(q) == q.pc = "done"

\* the with statement has been left: the handler is returning or handling
LeftWith(q) == q.pc \in {"return", "except", "done"}

\* the joined query ran and its rows were fetched
Fetched(q) == q.handler = "ips" /\ "fetchall" \in {q.calls[k] : k \in 1..Len(q.calls)}
              /\ ~Fails("fetchall")

HasRaised(q, t) == \E k \in 1..Len(q.raised) : q.raised[k].type = t

SumSks(rs) ==
    LET RECURSIVE S(_)
        S(k) == IF k = 0 THEN 0 ELSE rs[k][5] + S(k - 1)
    IN  S(Len(rs))

\* the weights as the specification lists them, times 100
SpecWeight(g) ==
    CASE g = "A" -> 400 [] g = "B+" -> 350 [] g = "B" -> 300 [] g = "B-" -> 275
      [] g = "C+" -> 250 [] g = "C" -> 200 [] g = "D" -> 100 [] OTHER -> 0

SumWeighted(rs) ==
    LET RECURSIVE S(_)
        S(k) == IF k = 0 THEN 0 ELSE SpecWeight(rs[k][4]) * rs[k][5] + S(k - 1)
    IN  S(Len(rs))

PairsOf(rs) == [k \in 1..Len(rs) |-> <<rs[k][4], rs[k][5]>>]

\* v (times 100) is P/Q rounded to the hundredth: no hundredth is nearer
IsRounded(v, P, Q) ==
    LET d == IF v * Q >= P THEN v * Q - P ELSE P - v * Q
    IN  2 * d <= Q

Perms(s) ==
    {[k \in 1..Len(s) |-> s[f[k]]] :
        f \in {g \in [1..Len(s) -> 1..Len(s)] :
                 \A a, b \in 1..Len(s) : g[a] = g[b] => a = b}}

\* lines 118-129 on a whole row sequence: the accumulators after the loop,
\* then the quotient, or "error" where the division raises
Accumulate(rs) ==
    LET RECURSIVE F(_)
        F(k) == IF k = 0 THEN <<0, 0>> ELSE AddRow(F(k - 1), rs[k])
    IN  F(Len(rs))

Gpa(rs) ==
    LET acc == Accumulate(rs)
    IN  IF acc[2] = 0
        THEN [kind |-> "error"]
        ELSE [kind |-> "value", ips |-> PyDivRound(acc[1], acc[2]), total_sks |-> acc[2]]

(***************************************************************************)
(* C1.  A GET /api/acad/ips request whose joined query returns zero rows    *)
(* (the student has no enrolment, or the nim is no student) is answered     *)
(* with status 404.  Stated for runs in which no driver call fails.         *)
(***************************************************************************)
C1_ZeroRowsGive404 ==
    \A r \in Requests :
        LET q == req[r]
        IN  (Done(q) /\ faults = {} /\ Fetched(q) /\ q.rows = <<>>)
                => q.status = 404

(***************************************************************************)
(* C2.  Once the with statement is left, a connection that was acquired has *)
(* been closed exactly once, whatever the exit path (normal completion, the *)
(* return inside the block, a failing query, an exception raised in the     *)
(* body, a failing commit, a failing rollback); when connect failed there   *)
(* is no connection and close was never called.  close is never called      *)
(* twice at any point.                                                      *)
(***************************************************************************)
C2_ClosedExactlyOnce ==
    \A r \in Requests :
        LET q == req[r]
        IN  /\ Count(q.calls, "close") <= 1
            /\ LeftWith(q) =>
                  IF q.conn = "none"
                  THEN Count(q.calls, "close") = 0
                  ELSE q.conn = "closed" /\ Count(q.calls, "close") = 1

\* a failing commit followed by a failing rollback, the connection closed
C2_Witness ==
    \E r \in Requests :
        LET q == req[r]
        IN  /\ Done(q)
            /\ HasRaised(q, "OperationalError")
            /\ q.calls = <<"connect", "cursor", "execute", "fetchall",
                           "commit", "rollback", "close">>
            /\ {"commit", "rollback"} \subseteq faults
            /\ q.conn = "closed"

(***************************************************************************)
(* C4.  When the fetched rows are empty or their credit-hours sum to zero,  *)
(* get_ips ends in an error response and no division by zero was           *)
(* performed (no ZeroDivisionError was raised).                             *)
(***************************************************************************)
C4_FailsWithoutDividingByZero ==
    \A r \in Requests :
        LET q == req[r]
        IN  (Done(q) /\ Fetched(q) /\ (q.rows = <<>> \/ SumSks(q.rows) = 0))
                => /\ q.status # 200
                   /\ ~HasRaised(q, "ZeroDivisionError")

(***************************************************************************)
(* C3.  As claimed: in get_mahasiswas and get_ips, when connect, execute,   *)
(* fetchall or commit raises, the response is a 500 whose detail is that    *)
(* call's error message, and the call was made once.                        *)
(***************************************************************************)
QueryCalls == {"connect", "execute", "fetchall", "commit"}

FailedCall(q, op) == Fails(op) /\ Count(q.calls, op) >= 1

C3_DetailIsFailedCallsMessage ==
    \A r \in Requests : \A op \in QueryCalls :
        LET q == req[r]
        IN  (Done(q) /\ FailedCall(q, op))
                => /\ q.status = 500
                   /\ q.detail = DbError(op).msg
                   /\ \A o \in Ops : Count(q.calls, o) <= 1

(***************************************************************************)
(* C3, amended.  When connect, execute, fetchall or commit raises, the      *)
(* response is a 500 and no driver call was made more than once; its detail *)
(* is the message of the last error raised: that call's message, unless the *)
(* rollback or the close that follows raises too, and then the message of   *)
(* the later of those.                                                      *)
(***************************************************************************)
C3_DetailIsLastErrorsMessage ==
    \A r \in Requests : \A op \in QueryCalls :
        LET q == req[r]
        IN  (Done(q) /\ FailedCall(q, op))
                => /\ q.status = 500
                   /\ q.detail = DbError(IF FailedCall(q, "close") THEN "close"
                                         ELSE IF FailedCall(q, "rollback") THEN "rollback"
                                         ELSE op).msg
                   /\ \A o \in Ops : Count(q.calls, o) <= 1

\* execute fails in get_ips and is answered with its own message
C3_Witness ==
    \E r \in Requests :
        LET q == req[r]
        IN  /\ Done(q) /\ q.handler = "ips"
            /\ faults = {"execute"}
            /\ q.calls = <<"connect", "cursor", "execute", "rollback", "close">>
            /\ q.status = 500 /\ q.detail = "execute failed"

(***************************************************************************)
(* C5.  A 200 response of get_ips to rows with positive credit-hours has    *)
(* total_sks the sum of the credit-hours and ips the weighted sum over      *)
(* total_sks rounded to the hundredth, the weights being those the          *)
(* specification lists; [(A,3),(B+,3)] gives 3.75 and 6, and                *)
(* [(C,2),(D,4),(E,2)] gives 1.0 and 8.                                     *)
(***************************************************************************)
C5_WeightedMean ==
    \A r \in Requests :
        LET q == req[r]
        IN  (Done(q) /\ q.handler = "ips" /\ q.status = 200
                /\ \A k \in 1..Len(q.rows) : q.rows[k][5] > 0)
                => /\ q.rows # <<>>
                   /\ q.ret.total_sks = SumSks(q.rows)
                   /\ IsRounded(q.ret.ips, SumWeighted(q.rows), SumSks(q.rows))
                   /\ PairsOf(q.rows) = ScenarioA
                        => q.ret.ips = 375 /\ q.ret.total_sks = 6
                   /\ PairsOf(q.rows) = ScenarioB
                        => q.ret.ips = 100 /\ q.ret.total_sks = 8

\* scenario B answered
C5_Witness ==
    \E r \in Requests :
        LET q == req[r]
        IN  /\ Done(q) /\ q.handler = "ips" /\ q.status = 200
            /\ PairsOf(q.rows) = ScenarioB
            /\ q.ret.ips = 100 /\ q.ret.total_sks = 8

(***************************************************************************)
(* C6.  A 200 response of get_ips to rows whose grades are all in the       *)
(* conversion table has 0.0 <= ips <= 4.0.                                  *)
(***************************************************************************)
C6_IpsInRange ==
    \A r \in Requests :
        LET q == req[r]
        IN  (Done(q) /\ q.handler = "ips" /\ q.status = 200
                /\ \A k \in 1..Len(q.rows) : q.rows[k][4] \in Grades)
                => q.ret.ips >= 0 /\ q.ret.ips <= 400

\* two rows of different recognized grades answered with a GPA strictly
\* between the two weights
C6_Witness ==
    \E r \in Requests :
        LET q == req[r]
        IN  /\ Done(q) /\ q.handler = "ips" /\ q.status = 200
            /\ Len(q.rows) = 2
            /\ q.rows[1][4] = "A" /\ q.rows[2][4] = "E"
            /\ q.ret.ips > 0 /\ q.ret.ips < 400

(***************************************************************************)
(* C7.  As claimed: a row whose grade is not in the table adds 0 to         *)
(* total_bobot and its credit-hours to total_sks, and every non-empty input *)
(* is answered with a numeric result: ips 0.0 when no grade is recognized,  *)
(* and total_sks 3 with ips 0.0 for [(F,3)].  Stated for runs in which no   *)
(* driver call fails.                                                       *)
(***************************************************************************)
Recognized(rs) == SelectSeq(rs, LAMBDA row : row[4] \in Grades)

Prefix(q) == SubSeq(q.rows, 1, q.i - 1)

UnrecognizedAddZero(q) ==
    q.pc = "loop" =>
        /\ q.total_bobot = SumWeighted(Recognized(Prefix(q)))
        /\ q.total_sks = SumSks(Prefix(q))

NumericResult(q) ==
    /\ q.status = 200
    /\ q.ret.kind = "ips"
    /\ q.ret.total_sks = SumSks(q.rows)
    /\ Recognized(q.rows) = <<>> => q.ret.ips = 0
    /\ PairsOf(q.rows) = ScenarioC => q.ret.ips = 0 /\ q.ret.total_sks = 3

C7_NonEmptyAlwaysNumeric ==
    \A r \in Requests :
        LET q == req[r]
        IN  (faults = {} /\ Fetched(q) /\ q.rows # <<>>)
                => /\ UnrecognizedAddZero(q)
                   /\ Done(q) => NumericResult(q)

(***************************************************************************)
(* C7, amended.  The same, the numeric result being promised only when the  *)
(* credit-hours of the rows do not sum to zero.                             *)
(***************************************************************************)
C7_NonZeroSksAlwaysNumeric ==
    \A r \in Requests :
        LET q == req[r]
        IN  (faults = {} /\ Fetched(q) /\ q.rows # <<>>)
                => /\ UnrecognizedAddZero(q)
                   /\ (Done(q) /\ SumSks(q.rows) # 0) => NumericResult(q)

\* scenario C answered
C7_Witness ==
    \E r \in Requests :
        LET q == req[r]
        IN  /\ Done(q) /\ faults = {} /\ q.handler = "ips" /\ q.status = 200
            /\ PairsOf(q.rows) = ScenarioC
            /\ q.ret.ips = 0 /\ q.ret.total_sks = 3

(***************************************************************************)
(* C8.  The outcome of get_ips on its rows is the outcome of the            *)
(* computation on every permutation of them: the same ips and the same      *)
(* total_sks.  Stated for runs in which no driver call fails.               *)
(***************************************************************************)
Outcome(q) ==
    IF q.status = 200
    THEN [kind |-> "value", ips |-> q.ret.ips, total_sks |-> q.ret.total_sks]
    ELSE [kind |-> "error"]

C8_OrderIrrelevant ==
    \A r \in Requests :
        LET q == req[r]
        IN  (Done(q) /\ faults = {} /\ Fetched(q) /\ q.rows # <<>>)
                => \A p \in Perms(q.rows) : Gpa(p) = Outcome(q)

\* three rows, no two alike, answered
C8_Witness ==
    \E r \in Requests :
        LET q == req[r]
        IN  /\ Done(q) /\ faults = {} /\ q.handler = "ips" /\ q.status = 200
            /\ Len(q.rows) = 3
            /\ Cardinality(Perms(q.rows)) = 6

(***************************************************************************)
(* C9.  No step of any request changes the student, course or enrolment     *)
(* relation, and a step changes the state of one request only: whatever the *)
(* interleaving, a request works on its own connection and locals.  Nor     *)
(* does a request see what another did: finished requests for the same      *)
(* route and nim have made the same calls and carry the same response,      *)
(* however they were interleaved with the others.  The timestamp of a       *)
(* /health response is a reading of the clock, not state of the service,    *)
(* and is left out of the comparison.                                       *)
(***************************************************************************)
Response(q) ==
    <<q.calls, q.status, q.detail,
      IF q.ret.kind = "health"
      THEN [kind |-> "health", status |-> q.ret.status]
      ELSE q.ret>>

SameRequestSameResponse ==
    \A r1, r2 \in Requests :
        (Done(req[r1]) /\ Done(req[r2])
            /\ req[r1].handler = req[r2].handler /\ req[r1].nim = req[r2].nim)
            => Response(req[r1]) = Response(req[r2])

C9_StoreReadOnlyRequestsIsolated ==
    /\ [][/\ db' = db
          /\ \A r1, r2 \in Requests :
                (req'[r1] # req[r1] /\ req'[r2] # req[r2]) => r1 = r2]_vars
    /\ []SameRequestSameResponse

\* two requests with open connections at once, one of each querying handler,
\* both past their queries
C9_Witness ==
    \E r1, r2 \in Requests :
        /\ req[r1].handler = "ips" /\ req[r1].pc = "loop" /\ req[r1].conn = "open"
        /\ req[r2].handler = "mahasiswa" /\ req[r2].pc = "commit"
        /\ req[r2].conn = "open"

(***************************************************************************)
(* C10.  As claimed.  Once the with statement is left with a connection     *)
(* acquired: if the body completed, commit was called and close after it,   *)
(* with no rollback unless commit raised; if the body raised, commit was    *)
(* never called, rollback and then close were, and the caller receives the  *)
(* body's exception; rollback follows a commit only when the commit raised. *)
(***************************************************************************)
Acquired(q) == q.conn # "none"

BodyReturned(q) == q.ret # NoRet

BodyRaised(q) == Acquired(q) /\ q.ret = NoRet /\ q.raised # <<>>

EndsWith(seq, tail) ==
    /\ Len(seq) >= Len(tail)
    /\ SubSeq(seq, Len(seq) - Len(tail) + 1, Len(seq)) = tail

CallOrder(q) ==
    /\ BodyReturned(q) =>
          /\ Count(q.calls, "commit") = 1
          /\ IF Fails("commit")
             THEN EndsWith(q.calls, <<"commit", "rollback", "close">>)
             ELSE /\ EndsWith(q.calls, <<"commit", "close">>)
                  /\ Count(q.calls, "rollback") = 0
    /\ BodyRaised(q) =>
          /\ Count(q.calls, "commit") = 0
          /\ Count(q.calls, "rollback") = 1
          /\ EndsWith(q.calls, <<"rollback", "close">>)
    /\ (Count(q.calls, "commit") > 0 /\ Count(q.calls, "rollback") > 0) =>
          /\ Fails("commit")
          /\ Position(q.calls, "commit") < Position(q.calls, "rollback")

C10_BodyExceptionReachesCaller ==
    \A r \in Requests :
        LET q == req[r]
        IN  (LeftWith(q) /\ Acquired(q))
                => /\ CallOrder(q)
                   /\ BodyRaised(q) => q.exc = q.raised[1]

(***************************************************************************)
(* C10, amended.  The same, except that the caller receives the body's      *)
(* exception only when neither rollback nor close raises; when one of them  *)
(* raises, the caller receives the exception of the later of the two.       *)
(***************************************************************************)
C10_CommitRollbackCloseOrder ==
    \A r \in Requests :
        LET q == req[r]
        IN  (LeftWith(q) /\ Acquired(q))
                => /\ CallOrder(q)
                   /\ BodyRaised(q) =>
                         q.exc = IF Fails("close") THEN DbError("close")
                                 ELSE IF Fails("rollback") THEN DbError("rollback")
                                 ELSE q.raised[1]

\* the 404 raised in the body of get_ips reaches the handler's except clause
\* after rollback and close
C10_Witness ==
    \E r \in Requests :
        LET q == req[r]
        IN  /\ q.pc = "except" /\ BodyRaised(q)
            /\ q.calls = <<"connect", "cursor", "execute", "fetchall",
                           "rollback", "close">>
            /\ q.exc = NotFound
====
